---- MODULE Spec2Model ----
(***************************************************************************)
(* Model of the swarmkit port allocator                                    *)
(* (manager/allocator/network/port/port.go).                               *)
(*                                                                         *)
(* The allocator keeps one set of reserved (protocol, port) keys.          *)
(* Allocate and Deallocate compute a proposal against that set; Commit     *)
(* applies the proposal; the caller then writes the proposal's ports and   *)
(* the spec it used onto the endpoint.                                     *)
(***************************************************************************)
EXTENDS Integers, Sequences, FiniteSets, TLC

(***************************************************************************)
(* Program constants (port.go, const block).                               *)
(***************************************************************************)
DynamicPortStart == 30000
DynamicPortEnd == 32767
masterPortStart == 1
masterPortEnd == 65535

(***************************************************************************)
(* Bounds of the model.                                                    *)
(***************************************************************************)
\* longest port list of a spec handed to Allocate
MaxSpecLen == 2
\* longest port list of a spec of the neighbour service
NeighbourSpecLen == 1
\* most dynamic-range tcp ports the bulk endpoint of SpecBulk leaves free
FreeDyn == 2

(***************************************************************************)
(* api.PortConfig, api.EndpointSpec, api.Endpoint.                         *)
(***************************************************************************)
ProtocolTCP == "tcp"
ProtocolUDP == "udp"
PublishModeIngress == "ingress"
PublishModeHost == "host"

PortConfig(name, protocol, target, published, mode) ==
    [Name |-> name, Protocol |-> protocol, TargetPort |-> target,
     PublishedPort |-> published, PublishMode |-> mode]

\* a nil *api.EndpointSpec, and a spec with a port list
NilSpec == [isNil |-> TRUE, Ports |-> << >>]
EndpointSpec(ps) == [isNil |-> FALSE, Ports |-> ps]

Endpoint(spec, ps) == [Spec |-> spec, Ports |-> ps]

\* the key type "port" of the allocator's map
port(protocol, n) == [protocol |-> protocol, port |-> n]

\* error kinds of the errors package; NoError is a nil error
NoError == "nil"
ErrInvalidSpec == "ErrInvalidSpec"
ErrResourceInUse == "ErrResourceInUse"
ErrResourceExhausted == "ErrResourceExhausted"

(***************************************************************************)
(* Equality helpers.                                                       *)
(***************************************************************************)
PortsMostlyEqual(some, other) ==
    /\ some.Name = other.Name
    /\ some.TargetPort = other.TargetPort
    /\ some.Protocol = other.Protocol
    /\ some.PublishMode = other.PublishMode

portsEqual(some, other) ==
    PortsMostlyEqual(some, other) /\ some.PublishedPort = other.PublishedPort

(***************************************************************************)
(* proposal: ports (nil or a list), allocate and deallocate key sets.      *)
(***************************************************************************)
proposal(ps, psNil, alloc, dealloc) ==
    [ports |-> ps, portsNil |-> psNil, allocate |-> alloc, deallocate |-> dealloc]

\* proposal.Ports
Ports(prop) == IF prop.portsNil THEN << >> ELSE prop.ports

\* an IsNoop that compares the sizes of the two sets only
IsNoopBySize(prop) ==
    Cardinality(prop.allocate) = Cardinality(prop.deallocate)

\* proposal.IsNoop
IsNoop(prop) ==
    IF Cardinality(prop.allocate) # Cardinality(prop.deallocate)
    THEN FALSE
    ELSE \A p \in prop.allocate : p \in prop.deallocate

\* a Commit that flips the membership of the keys it reserves
CommitToggling(pa, prop) ==
    IF IsNoop(prop)
    THEN pa
    ELSE ((pa \ prop.deallocate) \ prop.allocate) \cup (prop.allocate \ pa)

\* a Commit that reserves and never releases
CommitWithoutRelease(pa, prop) ==
    IF IsNoop(prop)
    THEN pa
    ELSE pa \cup prop.allocate

\* proposal.Commit: the allocator's key set after the commit
Commit(pa, prop) ==
    IF IsNoop(prop)
    THEN pa
    ELSE (pa \ prop.deallocate) \cup prop.allocate

(***************************************************************************)
(* The ingress-mode keys of a list of realized ports: the loop shared by   *)
(* Restore, Deallocate and Allocate's release-set construction.            *)
(***************************************************************************)
IngressKeys(ps) ==
    {port(ps[i].Protocol, ps[i].PublishedPort) :
        i \in {j \in DOMAIN ps : ps[j].PublishMode # PublishModeHost}}

\* allocator.Restore: commits a proposal that only allocates
RestoreState(pa, endpointSet) ==
    Commit(pa, proposal(<< >>, TRUE,
                        UNION {IngressKeys(e.Ports) : e \in endpointSet}, {}))

\* a Deallocate that releases the keys of host-mode ports as well
DeallocateProposalAllModes(endpoint) ==
    proposal(<< >>, TRUE, {},
             {port(endpoint.Ports[i].Protocol, endpoint.Ports[i].PublishedPort) :
                 i \in DOMAIN endpoint.Ports})

\* allocator.Deallocate
DeallocateProposal(endpoint) ==
    proposal(<< >>, TRUE, {}, IngressKeys(endpoint.Ports))

(***************************************************************************)
(* allocator.Allocate.                                                     *)
(***************************************************************************)
\* a range check that forgets the target port
OutOfRangePublished(p) ==
    p.PublishedPort > masterPortEnd

\* first loop, range check of one descriptor
OutOfRange(p) ==
    p.PublishedPort > masterPortEnd \/ p.TargetPort > masterPortEnd

\* a recovery that accepts an old descriptor with another published port
RecoverPortMostlyEqual(endpoint, p) ==
    IF p.PublishMode = PublishModeHost THEN p.PublishedPort
    ELSE IF p.PublishedPort # 0 THEN p.PublishedPort
    ELSE IF endpoint.Spec.isNil THEN p.PublishedPort
    ELSE LET oldMatch == \E k \in DOMAIN endpoint.Spec.Ports :
                            PortsMostlyEqual(endpoint.Spec.Ports[k], p)
             hits == {k \in DOMAIN endpoint.Ports :
                            PortsMostlyEqual(p, endpoint.Ports[k])}
         IN IF oldMatch /\ hits # {}
            THEN endpoint.Ports[CHOOSE k \in hits : \A h \in hits : h <= k].PublishedPort
            ELSE p.PublishedPort

\* a recovery that also overwrites the published port of a fixed request
RecoverPortOfFixed(endpoint, p) ==
    IF p.PublishMode = PublishModeHost THEN p.PublishedPort
    ELSE IF endpoint.Spec.isNil THEN p.PublishedPort
    ELSE LET oldMatch == \E k \in DOMAIN endpoint.Spec.Ports :
                            portsEqual(endpoint.Spec.Ports[k], p)
             hits == {k \in DOMAIN endpoint.Ports :
                            PortsMostlyEqual(p, endpoint.Ports[k])}
         IN IF oldMatch /\ hits # {}
            THEN endpoint.Ports[CHOOSE k \in hits : \A h \in hits : h <= k].PublishedPort
            ELSE p.PublishedPort

\* first loop, recovery of one descriptor: the published port it carries
\* into finalPorts. The inner loops assign on every match, so the last
\* mostly-equal realized port wins.
RecoverPort(endpoint, p) ==
    IF p.PublishMode = PublishModeHost THEN p.PublishedPort
    ELSE IF p.PublishedPort # 0 THEN p.PublishedPort
    ELSE IF endpoint.Spec.isNil THEN p.PublishedPort
    ELSE LET oldMatch == \E k \in DOMAIN endpoint.Spec.Ports :
                            portsEqual(endpoint.Spec.Ports[k], p)
             hits == {k \in DOMAIN endpoint.Ports :
                            PortsMostlyEqual(p, endpoint.Ports[k])}
         IN IF oldMatch /\ hits # {}
            THEN endpoint.Ports[CHOOSE k \in hits : \A h \in hits : h <= k].PublishedPort
            ELSE p.PublishedPort

\* finalPorts after the first loop
RecoveredPorts(endpoint, specPorts) ==
    [i \in DOMAIN specPorts |->
        [specPorts[i] EXCEPT !.PublishedPort = RecoverPort(endpoint, specPorts[i])]]

\* a second loop that refuses every reserved key, the endpoint's own too
RECURSIVE FixedPassStrict(_, _, _, _, _)
FixedPassStrict(pa, finalPorts, dealloc, alloc, i) ==
    IF i > Len(finalPorts)
    THEN [err |-> NoError, allocate |-> alloc]
    ELSE LET p == finalPorts[i]
             portObj == port(p.Protocol, p.PublishedPort)
         IN IF p.PublishedPort = 0 \/ p.PublishMode = PublishModeHost
            THEN FixedPassStrict(pa, finalPorts, dealloc, alloc, i + 1)
            ELSE IF portObj \in pa
            THEN [err |-> ErrResourceInUse, allocate |-> alloc]
            ELSE IF portObj \in alloc
            THEN [err |-> ErrInvalidSpec, allocate |-> alloc]
            ELSE FixedPassStrict(pa, finalPorts, dealloc, alloc \cup {portObj}, i + 1)

\* a second loop that lets two descriptors claim one key
RECURSIVE FixedPassNoDuplicateCheck(_, _, _, _, _)
FixedPassNoDuplicateCheck(pa, finalPorts, dealloc, alloc, i) ==
    IF i > Len(finalPorts)
    THEN [err |-> NoError, allocate |-> alloc]
    ELSE LET p == finalPorts[i]
             portObj == port(p.Protocol, p.PublishedPort)
         IN IF p.PublishedPort = 0 \/ p.PublishMode = PublishModeHost
            THEN FixedPassNoDuplicateCheck(pa, finalPorts, dealloc, alloc, i + 1)
            ELSE IF portObj \in pa /\ portObj \notin dealloc
            THEN [err |-> ErrResourceInUse, allocate |-> alloc]
            ELSE FixedPassNoDuplicateCheck(pa, finalPorts, dealloc,
                                           alloc \cup {portObj}, i + 1)

\* second loop: descriptors that already carry a published port
RECURSIVE FixedPass(_, _, _, _, _)
FixedPass(pa, finalPorts, dealloc, alloc, i) ==
    IF i > Len(finalPorts)
    THEN [err |-> NoError, allocate |-> alloc]
    ELSE LET p == finalPorts[i]
             portObj == port(p.Protocol, p.PublishedPort)
         IN IF p.PublishedPort = 0 \/ p.PublishMode = PublishModeHost
            THEN FixedPass(pa, finalPorts, dealloc, alloc, i + 1)
            ELSE IF portObj \in pa /\ portObj \notin dealloc
            THEN [err |-> ErrResourceInUse, allocate |-> alloc]
            ELSE IF portObj \in alloc
            THEN [err |-> ErrInvalidSpec, allocate |-> alloc]
            ELSE FixedPass(pa, finalPorts, dealloc, alloc \cup {portObj}, i + 1)

\* a scan that runs down from the end of the range
FirstFreeDynamicDescending(pa, alloc, protocol) ==
    LET free(n) == port(protocol, n) \notin pa /\ port(protocol, n) \notin alloc
    IN IF \E n \in DynamicPortStart..DynamicPortEnd : free(n)
       THEN CHOOSE n \in DynamicPortStart..DynamicPortEnd :
                free(n) /\ \A m \in (n + 1)..DynamicPortEnd : ~free(m)
       ELSE 0

\* a scan that looks at the allocator state only
FirstFreeDynamicUnreserved(pa, alloc, protocol) ==
    LET free(n) == port(protocol, n) \notin pa
    IN IF \E n \in DynamicPortStart..DynamicPortEnd : free(n)
       THEN CHOOSE n \in DynamicPortStart..DynamicPortEnd :
                free(n) /\ \A m \in DynamicPortStart..(n - 1) : ~free(m)
       ELSE 0

\* a scan that looks at the proposal's reserve-set only
FirstFreeDynamicUnseen(pa, alloc, protocol) ==
    LET free(n) == port(protocol, n) \notin alloc
    IN IF \E n \in DynamicPortStart..DynamicPortEnd : free(n)
       THEN CHOOSE n \in DynamicPortStart..DynamicPortEnd :
                free(n) /\ \A m \in DynamicPortStart..(n - 1) : ~free(m)
       ELSE 0

\* third loop, the scan of the dynamic range: the first free port, 0 if none
FirstFreeDynamic(pa, alloc, protocol) ==
    LET free(n) == port(protocol, n) \notin pa /\ port(protocol, n) \notin alloc
    IN IF \E n \in DynamicPortStart..DynamicPortEnd : free(n)
       THEN CHOOSE n \in DynamicPortStart..DynamicPortEnd :
                free(n) /\ \A m \in DynamicPortStart..(n - 1) : ~free(m)
       ELSE 0

\* a fallback that takes any released key of the protocol
ReusableAnyPort(dealloc, alloc, protocol) ==
    {d \in dealloc : d.protocol = protocol /\ d \notin alloc}

\* third loop, the fallback: released keys a dynamic descriptor may take
Reusable(dealloc, alloc, protocol) ==
    {d \in dealloc : /\ d.protocol = protocol
                     /\ DynamicPortStart <= d.port
                     /\ d.port <= DynamicPortEnd
                     /\ d \notin alloc}

\* third loop. The fallback ranges over a Go map, whose iteration order is
\* unspecified: every reusable key is a possible choice, so the loop yields
\* a set of outcomes.
RECURSIVE DynamicPass(_, _, _, _, _)
DynamicPass(pa, finalPorts, dealloc, alloc, i) ==
    IF i > Len(finalPorts)
    THEN {[err |-> NoError, ports |-> finalPorts, allocate |-> alloc]}
    ELSE LET p == finalPorts[i]
             n == FirstFreeDynamic(pa, alloc, p.Protocol)
             assign(m) == DynamicPass(pa,
                              [finalPorts EXCEPT ![i].PublishedPort = m],
                              dealloc, alloc \cup {port(p.Protocol, m)}, i + 1)
         IN IF p.PublishedPort # 0 \/ p.PublishMode = PublishModeHost
            THEN DynamicPass(pa, finalPorts, dealloc, alloc, i + 1)
            ELSE IF n # 0
            THEN assign(n)
            ELSE IF Reusable(dealloc, alloc, p.Protocol) # {}
            THEN UNION {assign(d.port) : d \in Reusable(dealloc, alloc, p.Protocol)}
            ELSE {[err |-> ErrResourceExhausted, ports |-> << >>, allocate |-> {}]}

\* a returned error: no proposal
Failure(e) == [err |-> e, prop |-> proposal(<< >>, TRUE, {}, {})]
Success(prop) == [err |-> NoError, prop |-> prop]

\* allocator.Allocate: the set of possible (Proposal, error) results
AllocateResults(pa, endpoint, spec) ==
    LET specPorts == IF spec.isNil THEN << >> ELSE spec.Ports
        finalPorts == RecoveredPorts(endpoint, specPorts)
        dealloc == IngressKeys(endpoint.Ports)
        fixed == FixedPass(pa, finalPorts, dealloc, {}, 1)
    IN IF \E i \in DOMAIN specPorts : OutOfRange(specPorts[i])
       THEN {Failure(ErrInvalidSpec)}
       ELSE IF fixed.err # NoError
       THEN {Failure(fixed.err)}
       ELSE {IF r.err # NoError
             THEN Failure(r.err)
             ELSE Success(proposal(r.ports, FALSE, r.allocate, dealloc)) :
                r \in DynamicPass(pa, finalPorts, dealloc, fixed.allocate, 1)}

(***************************************************************************)
(* Inputs: the port descriptors users submit, and the specs built of them. *)
(***************************************************************************)
\* a dynamic request, and a fixed request for the same logical port
dynA == PortConfig("a", ProtocolTCP, 80, 0, PublishModeIngress)
fixA == PortConfig("a", ProtocolTCP, 80, 8080, PublishModeIngress)
\* a second logical port: dynamic, and fixed inside the dynamic range
dynB == PortConfig("b", ProtocolTCP, 80, 0, PublishModeIngress)
fixB == PortConfig("b", ProtocolTCP, 80, DynamicPortStart, PublishModeIngress)
\* the port number of fixA under another protocol, and in host mode
udpA == PortConfig("a", ProtocolUDP, 80, 8080, PublishModeIngress)
hostA == PortConfig("a", ProtocolTCP, 80, 8080, PublishModeHost)
\* descriptors off the end of the master range
badPublished == PortConfig("a", ProtocolTCP, 80, masterPortEnd + 1, PublishModeIngress)
badTarget == PortConfig("b", ProtocolUDP, masterPortEnd + 1, 0, PublishModeHost)

PortConfigs == {dynA, fixA, dynB, fixB, udpA, hostA, badPublished, badTarget}

SeqsUpTo(S, n) == UNION {[1..k -> S] : k \in 0..n}

\* the specs submitted for a service: e1 is the service under study, e2 a
\* neighbour publishing a shorter port list
SpecLen(e) == IF e = "e1" THEN MaxSpecLen ELSE NeighbourSpecLen

Specs(e) == {NilSpec} \cup {EndpointSpec(ps) : ps \in SeqsUpTo(PortConfigs, SpecLen(e))}

BulkPort(n) == PortConfig("bulk", ProtocolTCP, 80, n, PublishModeIngress)

\* a large service holding every dynamic tcp port but the lowest ones
BulkEndpoint(free) ==
    LET ps == [i \in 1..(DynamicPortEnd - DynamicPortStart + 1 - free) |->
                  BulkPort(DynamicPortStart + free + i - 1)]
    IN Endpoint(EndpointSpec(ps), ps)

(***************************************************************************)
(* State.                                                                  *)
(***************************************************************************)
VARIABLES
    pa,         \* allocator.ports: the reserved keys
    endpoints,  \* the caller's endpoint objects, by service
    pending,    \* calls returned and not yet committed or discarded
    restored    \* Restore has run

vars == <<pa, endpoints, pending, restored>>

\* the endpoints that Allocate and Deallocate are called for
Services == DOMAIN endpoints \ {"bulk"}

\* an endpoint that was never allocated
NewEndpoint == Endpoint(NilSpec, << >>)

\* persisted endpoints the manager may start from, as earlier allocations
\* left them
PersistedEndpoints ==
    { [e \in {"e1", "e2"} |-> NewEndpoint],
      [e \in {"e1", "e2"} |->
          IF e = "e1" THEN NewEndpoint
          ELSE Endpoint(EndpointSpec(<<hostA, dynA>>),
                        <<hostA, [dynA EXCEPT !.PublishedPort = DynamicPortStart]>>)],
      [e \in {"e1", "e2"} |->
          IF e = "e1" THEN Endpoint(EndpointSpec(<<fixA>>), <<fixA>>)
          ELSE Endpoint(EndpointSpec(<<fixB>>), <<fixB>>)] }

\* persisted endpoints with the dynamic tcp range taken, or all but taken
PersistedBulk ==
    { [e \in {"e1", "bulk"} |-> IF e = "e1" THEN NewEndpoint ELSE BulkEndpoint(free)] :
        free \in 0..FreeDyn }

\* NewAllocator, and the persisted endpoints
Init ==
    /\ pa = {}
    /\ endpoints \in PersistedEndpoints
    /\ pending = << >>
    /\ restored = FALSE

\* Restore(endpoints), once at startup
Restore ==
    /\ ~restored
    /\ pa' = RestoreState(pa, {endpoints[e] : e \in DOMAIN endpoints})
    /\ restored' = TRUE
    /\ UNCHANGED <<endpoints, pending>>

Call(op, e, spec, r) ==
    [op |-> op, ep |-> e, spec |-> spec, err |-> r.err, prop |-> r.prop]

\* the caller may start a call: single-writer discipline
MayCall == restored /\ pending = << >>

\* an Allocate that reserves its keys at once
AllocateReserving ==
    /\ MayCall
    /\ \E e \in Services :
         \E spec \in Specs(e) :
         \E r \in AllocateResults(pa, endpoints[e], spec) :
            /\ pending' = Append(pending, Call("Allocate", e, spec, r))
            /\ pa' = pa \cup r.prop.allocate
    /\ UNCHANGED <<endpoints, restored>>

\* Allocate(endpoint, spec): the state of the allocator is not written
Allocate ==
    /\ MayCall
    /\ \E e \in Services :
         \E spec \in Specs(e) :
         \E r \in AllocateResults(pa, endpoints[e], spec) :
            pending' = Append(pending, Call("Allocate", e, spec, r))
    /\ UNCHANGED <<pa, endpoints, restored>>

\* Deallocate(endpoint)
Deallocate ==
    /\ MayCall
    /\ \E e \in Services :
         pending' = Append(pending,
                       Call("Deallocate", e, NilSpec,
                            Success(DeallocateProposal(endpoints[e]))))
    /\ UNCHANGED <<pa, endpoints, restored>>

RemoveAt(s, i) == [k \in 1..(Len(s) - 1) |-> IF k < i THEN s[k] ELSE s[k + 1]]

\* Commit of an Allocate proposal; the caller writes Ports() and the spec
\* it used onto the endpoint
CommitAllocate ==
    \E i \in DOMAIN pending :
        /\ pending[i].op = "Allocate"
        /\ pending[i].err = NoError
        /\ pa' = Commit(pa, pending[i].prop)
        /\ endpoints' = [endpoints EXCEPT ![pending[i].ep] =
                            Endpoint(pending[i].spec, Ports(pending[i].prop))]
        /\ pending' = RemoveAt(pending, i)
        /\ UNCHANGED restored

\* Commit of a Deallocate proposal; the caller empties the endpoint's ports
\* and keeps or drops its stored spec
CommitDeallocate ==
    \E i \in DOMAIN pending :
        /\ pending[i].op = "Deallocate"
        /\ pa' = Commit(pa, pending[i].prop)
        /\ \E keep \in BOOLEAN :
             endpoints' = [endpoints EXCEPT ![pending[i].ep] =
                 Endpoint(IF keep THEN @.Spec ELSE NilSpec, Ports(pending[i].prop))]
        /\ pending' = RemoveAt(pending, i)
        /\ UNCHANGED restored

\* the caller drops a proposal, or the error of a failed call
Discard ==
    \E i \in DOMAIN pending :
        /\ pending' = RemoveAt(pending, i)
        /\ UNCHANGED <<pa, endpoints, restored>>

Next ==
    \/ Restore
    \/ Allocate
    \/ Deallocate
    \/ CommitAllocate
    \/ CommitDeallocate
    \/ Discard

Spec == Init /\ [][Next]_vars

\* the same allocator started with the dynamic tcp range all but taken
InitBulk ==
    /\ pa = {}
    /\ endpoints \in PersistedBulk
    /\ pending = << >>
    /\ restored = FALSE

SpecBulk == InitBulk /\ [][Next]_vars

(***************************************************************************)
(* Vocabulary of the properties.                                           *)
(***************************************************************************)
\* the calls returned and not yet committed or discarded. Under the
\* single-writer discipline of Spec there is at most one, and pa and
\* endpoints are still what the call read.
Calls == {pending[i] : i \in DOMAIN pending}
AllocateCalls == {c \in Calls : c.op = "Allocate"}

IsIngress(p) == p.PublishMode = PublishModeIngress
IsDynamic(p) == IsIngress(p) /\ p.PublishedPort = 0
IsFixed(p) == IsIngress(p) /\ p.PublishedPort # 0
InDynamicRange(n) == DynamicPortStart <= n /\ n <= DynamicPortEnd

\* the (protocol, published port) keys an endpoint holds in ingress mode
HeldKeys(e) ==
    {[protocol |-> endpoints[e].Ports[i].Protocol,
      port |-> endpoints[e].Ports[i].PublishedPort] :
        i \in {j \in DOMAIN endpoints[e].Ports : IsIngress(endpoints[e].Ports[j])}}

(***************************************************************************)
(* C1: no two distinct endpoints hold an ingress-mode realized port with   *)
(* the same (protocol, published port) key.                                *)
(***************************************************************************)
C1_NoSharedKey ==
    \A e, f \in DOMAIN endpoints : e # f => HeldKeys(e) \cap HeldKeys(f) = {}

\* both services were given a dynamic port for the same request
C1_Witness ==
    /\ restored
    /\ \A e \in {"e1", "e2"} :
          /\ e \in DOMAIN endpoints
          /\ endpoints[e].Spec = EndpointSpec(<<dynA>>)
          /\ HeldKeys(e) # {}

(***************************************************************************)
(* C2: once restored, the allocator state is exactly the set of keys of    *)
(* the ingress-mode realized ports of all endpoints: none leaked, none     *)
(* missing, none owed to a host-mode port.                                 *)
(***************************************************************************)
C2_StateIsHeldKeys ==
    restored => pa = UNION {HeldKeys(e) : e \in DOMAIN endpoints}

\* a service publishes 8080/tcp in host mode, nobody holds that key, and
\* another service was deallocated while the first holds ingress keys
C2_Witness ==
    /\ restored
    /\ pa # {}
    /\ \E e \in DOMAIN endpoints :
          /\ \E i \in DOMAIN endpoints[e].Ports : endpoints[e].Ports[i] = hostA
          /\ [protocol |-> ProtocolTCP, port |-> 8080] \notin pa
    /\ \E e \in DOMAIN endpoints :
          ~endpoints[e].Spec.isNil /\ endpoints[e].Spec.Ports # << >>
             /\ endpoints[e].Ports = << >>

(***************************************************************************)
(* C3: Allocate and Deallocate, successful or failed, leave the allocator  *)
(* state and the endpoints as they were; the state changes only in a       *)
(* Commit or in Restore.                                                   *)
(***************************************************************************)
C3_OnlyCommitWrites ==
    [][/\ Len(pending') > Len(pending) => pa' = pa /\ endpoints' = endpoints
       /\ pa' # pa =>
            \/ ~restored /\ restored'
            \/ /\ Len(pending') < Len(pending)
               /\ \E i \in DOMAIN pending :
                    pending[i].err = NoError /\ pa' = Commit(pa, pending[i].prop)
      ]_vars

\* a failed Allocate sits next to a non-empty allocator state
C3_Witness ==
    /\ pa # {}
    /\ \E c \in AllocateCalls : c.err = ErrResourceInUse

(***************************************************************************)
(* Vocabulary of the properties about one Allocate call c.                 *)
(***************************************************************************)
KeyOf(p) == [protocol |-> p.Protocol, port |-> p.PublishedPort]

\* the port list of the call's spec (empty for an absent spec)
SpecPorts(c) == c.spec.Ports

\* every descriptor passes the range check
RangeValid(c) ==
    \A i \in DOMAIN SpecPorts(c) :
        SpecPorts(c)[i].PublishedPort <= 65535 /\ SpecPorts(c)[i].TargetPort <= 65535

\* the descriptors as they enter the reservation passes
Recovered(c) == RecoveredPorts(endpoints[c.ep], SpecPorts(c))

\* no two ingress descriptors enter the reservation passes with one key
DistinctKeys(c) ==
    \A i, j \in DOMAIN Recovered(c) :
        (i # j /\ IsFixed(Recovered(c)[i]) /\ IsFixed(Recovered(c)[j]))
            => KeyOf(Recovered(c)[i]) # KeyOf(Recovered(c)[j])

\* positions whose descriptor still needs a dynamic port of the protocol
NeedsDynamic(c, protocol) ==
    {i \in DOMAIN Recovered(c) :
        IsDynamic(Recovered(c)[i]) /\ Recovered(c)[i].Protocol = protocol}

Protocols == {ProtocolTCP, ProtocolUDP}

\* the dynamic range of every protocol has room for the call's demand,
\* whatever the call's fixed requests take of it
DynamicAvailable(c) ==
    \A protocol \in Protocols :
        Cardinality(NeedsDynamic(c, protocol)) + Len(SpecPorts(c))
          + Cardinality({k \in pa : k.protocol = protocol /\ InDynamicRange(k.port)})
            <= DynamicPortEnd - DynamicPortStart + 1

\* positions of fixed requests whose key another endpoint holds
Foreign(c) ==
    {i \in DOMAIN SpecPorts(c) :
        /\ IsFixed(SpecPorts(c)[i])
        /\ KeyOf(SpecPorts(c)[i]) \in pa
        /\ KeyOf(SpecPorts(c)[i]) \notin HeldKeys(c.ep)}

\* positions of fixed requests whose key the calling endpoint holds
Own(c) ==
    {i \in DOMAIN SpecPorts(c) :
        /\ IsFixed(SpecPorts(c)[i])
        /\ KeyOf(SpecPorts(c)[i]) \in pa
        /\ KeyOf(SpecPorts(c)[i]) \in HeldKeys(c.ep)}

CarriesResult(e) ==
    /\ ~endpoints[e].Spec.isNil
    /\ Len(endpoints[e].Ports) = Len(endpoints[e].Spec.Ports)

C5_UnchangedSpecKeepsPorts ==
    \A c \in AllocateCalls :
        (CarriesResult(c.ep) /\ c.spec = endpoints[c.ep].Spec) =>
            /\ c.err = NoError
            /\ \A i \in DOMAIN SpecPorts(c) :
                  IsDynamic(SpecPorts(c)[i]) =>
                      Ports(c.prop)[i].PublishedPort
                          = endpoints[c.ep].Ports[i].PublishedPort

(***************************************************************************)
(* C6 (as claimed): in every successful Allocate each result descriptor    *)
(* whose spec descriptor is dynamic (published port 0, ingress) carries a  *)
(* published port in [DynamicPortStart, DynamicPortEnd].                   *)
(***************************************************************************)
C6_DynamicInRange ==
    \A c \in AllocateCalls :
        c.err = NoError =>
            \A i \in DOMAIN SpecPorts(c) :
                IsDynamic(SpecPorts(c)[i]) =>
                    InDynamicRange(Ports(c.prop)[i].PublishedPort)

(***************************************************************************)
(* C7: for every proposal returned against the current state, IsNoop() is  *)
(* true if and only if Commit leaves the allocator state unchanged, and    *)
(* Commit is the removal of the release-set followed by the addition of    *)
(* the reserve-set.                                                        *)
(***************************************************************************)
C7_NoopIffUnchanged ==
    \A c \in Calls :
        c.err = NoError =>
            /\ IsNoop(c.prop) <=> Commit(pa, c.prop) = pa
            /\ Commit(pa, c.prop) = (pa \ c.prop.deallocate) \cup c.prop.allocate

\* a proposal that releases and reserves the same non-empty key set
C7_Witness ==
    \E c \in AllocateCalls :
        c.err = NoError /\ c.prop.allocate # {} /\ IsNoop(c.prop)

(***************************************************************************)
(* C8: when every dynamic-range port of a protocol is reserved, a call     *)
(* that reaches the dynamic pass and needs new dynamic ports of that       *)
(* protocol succeeds if the calling endpoint releases enough dynamic-range *)
(* ingress ports of the protocol that the proposal has not re-reserved,    *)
(* each port assigned being one of those; otherwise it fails with          *)
(* ResourceExhausted.                                                      *)
(***************************************************************************)
Exhausted(protocol) ==
    \A n \in DynamicPortStart..DynamicPortEnd :
        [protocol |-> protocol, port |-> n] \in pa

\* the keys the fixed pass reserves
FixedKeys(c) ==
    {KeyOf(Recovered(c)[i]) : i \in {j \in DOMAIN Recovered(c) : IsFixed(Recovered(c)[j])}}

\* dynamic-range keys of the protocol the endpoint releases and the fixed
\* pass has not taken back
Released(c, protocol) ==
    {k \in HeldKeys(c.ep) :
        k.protocol = protocol /\ InDynamicRange(k.port) /\ k \notin FixedKeys(c)}

\* the call reaches the dynamic pass, and all its dynamic demand is for
\* exhausted protocols
DemandOnExhausted(c) ==
    /\ RangeValid(c) /\ DistinctKeys(c) /\ Foreign(c) = {}
    /\ \E protocol \in Protocols : NeedsDynamic(c, protocol) # {}
    /\ \A protocol \in Protocols :
          NeedsDynamic(c, protocol) # {} => Exhausted(protocol)

C8_ExhaustedRangeReuse ==
    \A c \in AllocateCalls :
        DemandOnExhausted(c) =>
            IF \A protocol \in Protocols :
                  Cardinality(NeedsDynamic(c, protocol))
                      <= Cardinality(Released(c, protocol))
            THEN /\ c.err = NoError
                 /\ \A protocol \in Protocols :
                      \A i \in NeedsDynamic(c, protocol) :
                         KeyOf(Ports(c.prop)[i]) \in Released(c, protocol)
            ELSE c.err = ErrResourceExhausted

\* the range is full, the endpoint gives up two dynamic ports and the call
\* is handed the higher of them
C8_Witness ==
    \E c \in AllocateCalls :
        /\ DemandOnExhausted(c)
        /\ c.err = NoError
        /\ Cardinality(Released(c, ProtocolTCP)) = 2
        /\ \E i \in NeedsDynamic(c, ProtocolTCP) :
              Ports(c.prop)[i].PublishedPort = DynamicPortStart + 1

\* the range is full, nothing is released, and the call fails
C8_WitnessExhausted ==
    \E c \in AllocateCalls :
        /\ DemandOnExhausted(c)
        /\ Released(c, ProtocolTCP) = {}
        /\ c.err = ErrResourceExhausted

(***************************************************************************)
(* C9 (as claimed): a spec in which two ingress descriptors carry the same *)
(* protocol and the same non-zero in-range published port gets             *)
(* InvalidSpec, in every allocator state.                                  *)
(***************************************************************************)
DuplicateFixed(c) ==
    \E i, j \in DOMAIN SpecPorts(c) :
        /\ i # j
        /\ IsFixed(SpecPorts(c)[i]) /\ IsFixed(SpecPorts(c)[j])
        /\ SpecPorts(c)[i].PublishedPort <= 65535
        /\ KeyOf(SpecPorts(c)[i]) = KeyOf(SpecPorts(c)[j])

C9_DuplicateIsInvalidSpec ==
    \A c \in AllocateCalls : DuplicateFixed(c) => c.err = ErrInvalidSpec

(***************************************************************************)
(* C9 (amended): such a spec never gets a proposal; the error is           *)
(* InvalidSpec, unless a fixed key of the spec is reserved by another      *)
(* endpoint, in which case it is InvalidSpec or ResourceInUse.             *)
(***************************************************************************)
C9_DuplicateIsRefused ==
    \A c \in AllocateCalls :
        DuplicateFixed(c) =>
            /\ c.err \in {ErrInvalidSpec, ErrResourceInUse}
            /\ Foreign(c) = {} => c.err = ErrInvalidSpec

\* the endpoint holds 8080/tcp and asks for it twice
C9_Witness ==
    \E c \in AllocateCalls :
        /\ DuplicateFixed(c)
        /\ RangeValid(c)
        /\ Own(c) # {}
        /\ c.err = ErrInvalidSpec

(***************************************************************************)
(* C10: a spec with a descriptor whose published port or target port is    *)
(* above 65535 gets InvalidSpec, whatever the state and the other          *)
(* descriptors, and no key is reserved or released.                        *)
(***************************************************************************)
C10_OutOfRangeIsInvalidSpec ==
    \A c \in AllocateCalls :
        ~RangeValid(c) =>
            /\ c.err = ErrInvalidSpec
            /\ c.prop.allocate = {} /\ c.prop.deallocate = {}

\* the bad descriptor follows a fixed request for a key another endpoint
\* holds, and the calling endpoint has keys to release
C10_Witness ==
    \E c \in AllocateCalls :
        /\ c.err = ErrInvalidSpec
        /\ Len(SpecPorts(c)) = 2
        /\ SpecPorts(c)[2].TargetPort > 65535
        /\ 1 \in Foreign(c)
        /\ HeldKeys(c.ep) # {}

(***************************************************************************)
(* AlreadyAllocated.                                                       *)
(***************************************************************************)
\* a *api.Endpoint argument: << >> is nil, <<e>> points to e
NilEndpoint == << >>
EndpointPtr(e) == <<e>>

\* what a call ends with: a boolean, or a run-time panic (nil pointer
\* dereference)
Returns(b) == [panics |-> FALSE, value |-> b]
Panics == [panics |-> TRUE, value |-> FALSE]

\* the final loop: every stored port has an equal port in the spec
EveryStoredPortFound(stored, wanted) ==
    \A k \in DOMAIN stored : \E j \in DOMAIN wanted : portsEqual(stored[k], wanted[j])

\* AlreadyAllocated(endpoint, spec). After the nil checks the code reads
\* endpoint.Spec.Ports and spec.Ports without a further test.
AlreadyAllocated(endpoint, spec) ==
    IF endpoint = NilEndpoint /\ spec.isNil THEN Returns(TRUE)
    ELSE IF endpoint = NilEndpoint /\ ~spec.isNil THEN Returns(FALSE)
    ELSE IF endpoint[1].Spec.isNil /\ ~spec.isNil THEN Returns(FALSE)
    ELSE IF spec.isNil /\ (~endpoint[1].Spec.isNil /\ Len(endpoint[1].Spec.Ports) > 0)
    THEN Returns(FALSE)
    ELSE IF endpoint[1].Spec.isNil \/ spec.isNil THEN Panics
    ELSE IF Len(endpoint[1].Spec.Ports) # Len(spec.Ports) THEN Returns(FALSE)
    ELSE Returns(EveryStoredPortFound(endpoint[1].Spec.Ports, spec.Ports))

\* endpoints as a first committed Allocate leaves them
AllocatedEndpoints ==
    UNION {{Endpoint(spec, Ports(r.prop)) :
               r \in {x \in AllocateResults({}, NewEndpoint, spec) : x.err = NoError}} :
           spec \in Specs("e1")}

\* the endpoint argument of the queries: absent, never allocated, allocated
PersistedForQuery ==
    {[e \in {} |-> NewEndpoint]}
        \cup {[e \in {"e1"} |-> ep] : ep \in AllocatedEndpoints \cup {NewEndpoint}}

InitQuery ==
    /\ pa = {}
    /\ endpoints \in PersistedForQuery
    /\ pending = << >>
    /\ restored = FALSE

\* the endpoint of service e as a pointer argument
EndpointArg(e) ==
    IF e \in DOMAIN endpoints THEN EndpointPtr(endpoints[e]) ELSE NilEndpoint

Query(e, spec, r) ==
    [op |-> "AlreadyAllocated", ep |-> e, spec |-> spec,
     panics |-> r.panics, value |-> r.value]

\* the caller asks AlreadyAllocated(endpoint, spec)
AlreadyAllocatedCall ==
    /\ pending = << >>
    /\ \E spec \in Specs("e1") :
         pending' = Append(pending,
                       Query("e1", spec, AlreadyAllocated(EndpointArg("e1"), spec)))
    /\ UNCHANGED <<pa, endpoints, restored>>

NextQuery ==
    \/ AlreadyAllocatedCall
    \/ Discard

SpecQuery == InitQuery /\ [][NextQuery]_vars

Queries == {c \in Calls : c.op = "AlreadyAllocated"}

\* how often a descriptor occurs in a port list
Count(ps, d) == Cardinality({k \in DOMAIN ps : ps[k] = d})

SameMultiset(ps, qs) ==
    \A d \in PortConfigs : Count(ps, d) = Count(qs, d)

(***************************************************************************)
(* C11 (as claimed): for an endpoint with a stored spec and a given spec,  *)
(* AlreadyAllocated returns true exactly when the two port lists are equal *)
(* as multisets of descriptors, whatever their order.                      *)
(***************************************************************************)
C11_TrueIffSameMultiset ==
    \A c \in Queries :
        (c.ep \in DOMAIN endpoints /\ ~endpoints[c.ep].Spec.isNil /\ ~c.spec.isNil) =>
            /\ ~c.panics
            /\ c.value <=> SameMultiset(endpoints[c.ep].Spec.Ports, c.spec.Ports)

(***************************************************************************)
(* C12 (as claimed): AlreadyAllocated returns a boolean for every          *)
(* combination of absent and present endpoint, stored spec and desired     *)
(* spec: true when endpoint and desired spec are both absent, false when   *)
(* exactly one of them is absent; it never fails.                          *)
(***************************************************************************)
C12_NilCombinations ==
    \A c \in Queries :
        /\ ~c.panics
        /\ (c.ep \notin DOMAIN endpoints /\ c.spec.isNil) => c.value
        /\ (c.ep \notin DOMAIN endpoints) # c.spec.isNil => ~c.value

(***************************************************************************)
(* Committing one proposal more than once.                                 *)
(***************************************************************************)
MaxCommits == 2

\* a call whose proposal the caller has committed n times and still holds
Committed(c, n) ==
    [op |-> c.op, ep |-> c.ep, spec |-> c.spec, err |-> c.err, prop |-> c.prop,
     commits |-> n]

IsCommitted(c) == "commits" \in DOMAIN c

\* the caller commits a proposal, updates the endpoint and keeps the proposal
CommitAndKeep ==
    \E i \in DOMAIN pending :
        /\ pending[i].op \in {"Allocate", "Deallocate"}
        /\ pending[i].err = NoError
        /\ ~IsCommitted(pending[i])
        /\ pa' = Commit(pa, pending[i].prop)
        /\ \E keep \in BOOLEAN :
             endpoints' = [endpoints EXCEPT ![pending[i].ep] =
                 IF pending[i].op = "Allocate"
                 THEN Endpoint(pending[i].spec, Ports(pending[i].prop))
                 ELSE Endpoint(IF keep THEN @.Spec ELSE NilSpec, Ports(pending[i].prop))]
        /\ pending' = [pending EXCEPT ![i] = Committed(@, 1)]
        /\ UNCHANGED restored

\* the caller calls Commit again on a proposal it has already committed
CommitAgain ==
    \E i \in DOMAIN pending :
        /\ IsCommitted(pending[i])
        /\ pending[i].commits < MaxCommits
        /\ pa' = Commit(pa, pending[i].prop)
        /\ pending' = [pending EXCEPT ![i] = Committed(@, @.commits + 1)]
        /\ UNCHANGED <<endpoints, restored>>

NextRecommit ==
    \/ Restore
    \/ Allocate
    \/ Deallocate
    \/ CommitAndKeep
    \/ CommitAgain
    \/ Discard

SpecRecommit == Init /\ [][NextRecommit]_vars

\* the step commits pending[i] once more
CommitsAgain(i) ==
    /\ i \in DOMAIN pending'
    /\ IsCommitted(pending[i])
    /\ IsCommitted(pending'[i])
    /\ pending'[i].commits = pending[i].commits + 1

(***************************************************************************)
(* C13: committing a proposal a second time, with no other Commit or       *)
(* Restore since its first Commit, leaves the allocator state as the first *)
(* Commit left it.                                                         *)
(***************************************************************************)
C13_SecondCommitChangesNothing ==
    [][\A i \in DOMAIN pending : CommitsAgain(i) => pa' = pa]_vars

\* a proposal that releases some keys and reserves others has been committed
\* twice
C13_Witness ==
    \E i \in DOMAIN pending :
        /\ IsCommitted(pending[i])
        /\ pending[i].commits = 2
        /\ pending[i].prop.allocate \ pending[i].prop.deallocate # {}
        /\ pending[i].prop.deallocate \ pending[i].prop.allocate # {}

(***************************************************************************)
(* C14: after a successful Allocate, Ports() has the length of the spec's  *)
(* port list and its i-th element agrees with the i-th descriptor on name, *)
(* protocol, target port and publish mode; its published port is the       *)
(* spec's whenever the descriptor is host-mode or carries a non-zero       *)
(* published port, so only dynamic ingress descriptors get a new published *)
(* port. For an absent spec or an empty list the call succeeds and Ports() *)
(* is empty.                                                               *)
(***************************************************************************)
C14_PortsFollowSpec ==
    \A c \in AllocateCalls :
        /\ SpecPorts(c) = << >> => c.err = NoError /\ Ports(c.prop) = << >>
        /\ c.err = NoError =>
             /\ Len(Ports(c.prop)) = Len(SpecPorts(c))
             /\ \A i \in DOMAIN SpecPorts(c) :
                  LET given == SpecPorts(c)[i]
                      final == Ports(c.prop)[i]
                  IN /\ final.Name = given.Name
                     /\ final.Protocol = given.Protocol
                     /\ final.TargetPort = given.TargetPort
                     /\ final.PublishMode = given.PublishMode
                     /\ ~IsDynamic(given) => final.PublishedPort = given.PublishedPort
                     /\ IsDynamic(given) => final.PublishedPort # 0

\* a spec with a host-mode, a fixed and a dynamic descriptor was allocated
\* for an endpoint that holds ports of an earlier spec
C14_Witness ==
    \E c \in AllocateCalls :
        /\ c.err = NoError
        /\ endpoints[c.ep].Ports # << >>
        /\ endpoints[c.ep].Spec.Ports # << >>
        /\ \E i, j \in DOMAIN SpecPorts(c) :
              /\ ~IsDynamic(SpecPorts(c)[i])
              /\ PortsMostlyEqual(SpecPorts(c)[i], endpoints[c.ep].Ports[1])
              /\ portsEqual(SpecPorts(c)[i], endpoints[c.ep].Spec.Ports[1])
              /\ IsDynamic(SpecPorts(c)[j])

\* an absent spec was allocated for an endpoint that holds ports
C14_WitnessAbsent ==
    \E c \in AllocateCalls :
        c.spec.isNil /\ c.err = NoError /\ endpoints[c.ep].Ports # << >>

(***************************************************************************)
(* Two callers without the single-writer discipline: a second Allocate is  *)
(* made while the proposal of a first call is still uncommitted.           *)
(***************************************************************************)
\* the specs of the interleaved calls
ShortSpecs == Specs("e2")

\* Allocate(endpoint, spec) with no other call outstanding
AllocateFirst ==
    /\ MayCall
    /\ \E e \in Services :
         \E spec \in ShortSpecs :
         \E r \in AllocateResults(pa, endpoints[e], spec) :
            pending' = Append(pending, Call("Allocate", e, spec, r))
    /\ UNCHANGED <<pa, endpoints, restored>>

\* an Allocate that counts the keys of the outstanding proposal as reserved
AllocateSeeingProposal ==
    /\ restored
    /\ Len(pending) = 1
    /\ pending[1].err = NoError
    /\ \E e \in Services \ {pending[1].ep} :
         \E spec \in ShortSpecs :
         \E r \in AllocateResults(pa \cup pending[1].prop.allocate, endpoints[e], spec) :
            pending' = Append(pending, Call("Allocate", e, spec, r))
    /\ UNCHANGED <<pa, endpoints, restored>>

\* Allocate(endpoint, spec) for another endpoint while one proposal is
\* outstanding: it reads the allocator state only
AllocateUncommitted ==
    /\ restored
    /\ Len(pending) = 1
    /\ pending[1].err = NoError
    /\ \E e \in Services \ {pending[1].ep} :
         \E spec \in ShortSpecs :
         \E r \in AllocateResults(pa, endpoints[e], spec) :
            pending' = Append(pending, Call("Allocate", e, spec, r))
    /\ UNCHANGED <<pa, endpoints, restored>>

NextInterleaved ==
    \/ Restore
    \/ AllocateFirst
    \/ AllocateUncommitted
    \/ Deallocate
    \/ CommitAllocate
    \/ CommitDeallocate
    \/ Discard

SpecInterleaved == Init /\ [][NextInterleaved]_vars

\* the call's result is what Allocate returns in the present state: nothing
\* was committed since the call
Current(c) ==
    [err |-> c.err, prop |-> c.prop] \in AllocateResults(pa, endpoints[c.ep], c.spec)

\* the key of the lowest unreserved port of the protocol's dynamic range
LowestFreeKey(k, protocol) ==
    /\ k.protocol = protocol
    /\ InDynamicRange(k.port)
    /\ k \notin pa
    /\ \A m \in DynamicPortStart..(k.port - 1) : port(protocol, m) \in pa

(***************************************************************************)
(* C15: an uncommitted proposal is invisible to other callers. When        *)
(* Allocate is called for one endpoint and then, before any Commit, for    *)
(* another, each with a descriptor that needs a new dynamic port of the    *)
(* same protocol, both proposals are assigned the same published port:    *)
(* both reserve the key of the lowest free port of that protocol, each for *)
(* a dynamic descriptor unless the call's own fixed request names that     *)
(* port; and a key that two endpoints come to hold after both Commits is   *)
(* in the allocator state, once.                                           *)
(***************************************************************************)
C15_UncommittedIsInvisible ==
    /\ (/\ Len(pending) = 2
        /\ pending[1].op = "Allocate" /\ pending[2].op = "Allocate"
        /\ pending[1].err = NoError /\ pending[2].err = NoError
        /\ pending[1].ep # pending[2].ep
        /\ Current(pending[1]))
         => \A protocol \in Protocols :
               (/\ NeedsDynamic(pending[1], protocol) # {}
                /\ NeedsDynamic(pending[2], protocol) # {})
                 => \E k \in pending[1].prop.allocate \cap pending[2].prop.allocate :
                        /\ LowestFreeKey(k, protocol)
                        /\ \A i \in 1..2 :
                             k \notin FixedKeys(pending[i]) =>
                                \E j \in NeedsDynamic(pending[i], protocol) :
                                   KeyOf(Ports(pending[i].prop)[j]) = k
    /\ \A e, f \in Services : e # f => (HeldKeys(e) \cap HeldKeys(f)) \subseteq pa

\* both proposals were committed: two endpoints hold one dynamic key
C15_Witness ==
    /\ pending = << >>
    /\ \E e, f \in Services :
          /\ e # f
          /\ endpoints[e].Spec = EndpointSpec(<<dynA>>)
          /\ endpoints[f].Spec = EndpointSpec(<<dynA>>)
          /\ HeldKeys(e) = HeldKeys(f)
          /\ HeldKeys(e) # {}
          /\ HeldKeys(e) \subseteq pa

(***************************************************************************)
(* Vocabulary of recovery: descriptor i of the spec of call c against the  *)
(* endpoint's stored spec and realized ports.                              *)
(***************************************************************************)
\* the stored spec has a descriptor mostly equal to descriptor i
OldMostlyEqual(c, i) ==
    \E k \in DOMAIN endpoints[c.ep].Spec.Ports :
        PortsMostlyEqual(endpoints[c.ep].Spec.Ports[k], SpecPorts(c)[i])

\* the stored spec has a descriptor equal to descriptor i, published port too
OldEqual(c, i) ==
    \E k \in DOMAIN endpoints[c.ep].Spec.Ports :
        portsEqual(endpoints[c.ep].Spec.Ports[k], SpecPorts(c)[i])

\* the published ports of the realized ports mostly equal to descriptor i
RealizedFor(c, i) ==
    {endpoints[c.ep].Ports[k].PublishedPort :
        k \in {h \in DOMAIN endpoints[c.ep].Ports :
                  PortsMostlyEqual(SpecPorts(c)[i], endpoints[c.ep].Ports[h])}}

DynamicPositions(c) == {i \in DOMAIN SpecPorts(c) : IsDynamic(SpecPorts(c)[i])}

\* descriptor i left the call with a port found by the dynamic pass
FromDynamicPass(c, i) ==
    /\ InDynamicRange(Ports(c.prop)[i].PublishedPort)
    /\ KeyOf(Ports(c.prop)[i]) \notin pa

(***************************************************************************)
(* C16 (as claimed): a dynamic ingress descriptor recovers the published   *)
(* port of a mostly-equal realized port whenever the endpoint's stored     *)
(* spec contains a descriptor mostly equal to it; when the stored spec     *)
(* contains no such descriptor it gets its port from the dynamic pass.     *)
(***************************************************************************)
C16_RecoversWhenMostlyEqual ==
    \A c \in AllocateCalls :
        c.err = NoError =>
            \A i \in DynamicPositions(c) :
                /\ (OldMostlyEqual(c, i) /\ RealizedFor(c, i) # {}) =>
                       Ports(c.prop)[i].PublishedPort \in RealizedFor(c, i)
                /\ ~OldMostlyEqual(c, i) => FromDynamicPass(c, i)

(***************************************************************************)
(* C16 (amended): a dynamic ingress descriptor recovers the published port *)
(* of a mostly-equal realized port whenever the endpoint's stored spec     *)
(* contains a descriptor equal to it in every field, the published port 0  *)
(* included; in every other case, also when the stored spec holds a fixed  *)
(* request for the same logical port, it gets its port from the dynamic    *)
(* pass.                                                                   *)
(***************************************************************************)
C16_RecoversWhenEqual ==
    \A c \in AllocateCalls :
        c.err = NoError =>
            \A i \in DynamicPositions(c) :
                IF OldEqual(c, i) /\ RealizedFor(c, i) # {}
                THEN Ports(c.prop)[i].PublishedPort \in RealizedFor(c, i)
                ELSE FromDynamicPass(c, i)

\* a dynamic request follows a fixed request for the same logical port, and
\* in the same spec another dynamic request recovers its port
C16_Witness ==
    \E c \in AllocateCalls :
        /\ c.err = NoError
        /\ \E i, j \in DynamicPositions(c) :
              /\ OldMostlyEqual(c, i) /\ ~OldEqual(c, i) /\ RealizedFor(c, i) # {}
              /\ OldEqual(c, j) /\ RealizedFor(c, j) # {}
              /\ Ports(c.prop)[j].PublishedPort \in RealizedFor(c, j)

\* positions of fixed requests for an unreserved port of the dynamic range
FreeFixedInRange(c) ==
    {j \in DOMAIN SpecPorts(c) :
        /\ IsFixed(SpecPorts(c)[j])
        /\ InDynamicRange(SpecPorts(c)[j].PublishedPort)
        /\ KeyOf(SpecPorts(c)[j]) \notin pa}

(***************************************************************************)
(* C17: within one Allocate call the fixed requests are reserved before    *)
(* any dynamic port is chosen. Whatever the order of the descriptors, a    *)
(* dynamic descriptor never leaves the call with a key that another        *)
(* ingress descriptor of the spec requests explicitly; and an otherwise    *)
(* sound spec (ports in range, no key entering the passes twice, no key of *)
(* another endpoint, room in the dynamic range) that mixes a fixed request *)
(* for a free port of the dynamic range with dynamic requests succeeds.    *)
(***************************************************************************)
C17_FixedBeforeDynamic ==
    \A c \in AllocateCalls :
        /\ c.err = NoError =>
              \A i \in DynamicPositions(c) :
              \A j \in DOMAIN SpecPorts(c) :
                  IsFixed(SpecPorts(c)[j]) =>
                      KeyOf(Ports(c.prop)[i]) # KeyOf(SpecPorts(c)[j])
        /\ (/\ RangeValid(c) /\ DistinctKeys(c) /\ Foreign(c) = {}
            /\ DynamicAvailable(c)
            /\ FreeFixedInRange(c) # {}
            /\ DynamicPositions(c) # {})
              => /\ c.err = NoError
                 /\ \A j \in FreeFixedInRange(c) :
                       KeyOf(SpecPorts(c)[j]) \in c.prop.allocate

\* the dynamic request comes first in the spec, the fixed request asks for
\* the lowest free port of the range, and the dynamic one gets the next
C17_Witness ==
    \E c \in AllocateCalls :
        /\ c.err = NoError
        /\ Len(SpecPorts(c)) = 2
        /\ 1 \in NeedsDynamic(c, ProtocolTCP)
        /\ 2 \in FreeFixedInRange(c)
        /\ LowestFreeKey(KeyOf(SpecPorts(c)[2]), ProtocolTCP)
        /\ Ports(c.prop)[1].PublishedPort = SpecPorts(c)[2].PublishedPort + 1

\* port n of the protocol is free for a dynamic descriptor of call c: its
\* key is not in the state and no fixed request of the call reserves it
FreeFor(c, protocol, n) ==
    /\ port(protocol, n) \notin pa
    /\ port(protocol, n) \notin FixedKeys(c)

(***************************************************************************)
(* C18: when the dynamic range is not exhausted, the dynamic ingress       *)
(* descriptors without a recovered port are given, in spec order, the      *)
(* lowest ports of [DynamicPortStart, DynamicPortEnd] whose key is neither *)
(* in the allocator state nor in the proposal's reserve-set: the k-th such *)
(* descriptor of a protocol gets the k-th lowest free port. The result of  *)
(* the call is a function of the state, the endpoint and the spec.         *)
(***************************************************************************)
C18_LowestFreePort ==
    \A c \in AllocateCalls :
        DynamicAvailable(c) =>
            /\ AllocateResults(pa, endpoints[c.ep], c.spec) =
                  {[err |-> c.err, prop |-> c.prop]}
            /\ c.err = NoError =>
                 \A protocol \in Protocols :
                 \A i \in NeedsDynamic(c, protocol) :
                    LET n == Ports(c.prop)[i].PublishedPort
                    IN /\ InDynamicRange(n)
                       /\ FreeFor(c, protocol, n)
                       /\ Cardinality({m \in DynamicPortStart..(n - 1) :
                                          FreeFor(c, protocol, m)})
                            = Cardinality({j \in NeedsDynamic(c, protocol) : j < i})

\* the lowest port of the range is held by another endpoint, and a dynamic
\* descriptor is given a port beyond the next one
C18_Witness ==
    \E c \in AllocateCalls :
        /\ c.err = NoError
        /\ port(ProtocolTCP, DynamicPortStart) \in pa
        /\ port(ProtocolTCP, DynamicPortStart) \notin HeldKeys(c.ep)
        /\ NeedsDynamic(c, ProtocolTCP) # {}
        /\ \E i \in NeedsDynamic(c, ProtocolTCP) :
              Ports(c.prop)[i].PublishedPort > DynamicPortStart + 1

\* two descriptors of one call get the two lowest free ports in spec order
C18_WitnessInOrder ==
    \E c \in AllocateCalls :
        /\ c.err = NoError
        /\ NeedsDynamic(c, ProtocolTCP) = {1, 2}
        /\ Ports(c.prop)[1].PublishedPort < Ports(c.prop)[2].PublishedPort

(***************************************************************************)
(* The round trip of a returned Allocate proposal c: Commit, the caller    *)
(* writes the spec and Ports() to the endpoint, Deallocate of that         *)
(* endpoint, Commit.                                                       *)
(***************************************************************************)
AfterAllocate(c) == Commit(pa, c.prop)

EndpointAfterAllocate(c) == Endpoint(c.spec, Ports(c.prop))

AfterRoundTrip(c) ==
    Commit(AfterAllocate(c), DeallocateProposal(EndpointAfterAllocate(c)))

(***************************************************************************)
(* C19: for an endpoint with no realized ports, a successful Allocate and  *)
(* its Commit, followed by Deallocate of the endpoint (now carrying the    *)
(* proposal's ports) and its Commit, return the allocator state to what it *)
(* was before the Allocate, whatever other endpoints have reserved.        *)
(***************************************************************************)
C19_RoundTrip ==
    \A c \in AllocateCalls :
        (c.err = NoError /\ endpoints[c.ep].Ports = << >>) =>
            AfterRoundTrip(c) = pa

\* the proposal reserves a key and publishes 8080 in host mode while another
\* endpoint holds 8080/tcp in ingress mode
C19_Witness ==
    \E c \in AllocateCalls :
        /\ c.err = NoError
        /\ endpoints[c.ep].Ports = << >>
        /\ c.prop.allocate # {}
        /\ AfterAllocate(c) # pa
        /\ \E i \in DOMAIN SpecPorts(c) : SpecPorts(c)[i] = hostA
        /\ \E f \in Services : f # c.ep /\ port(ProtocolTCP, 8080) \in HeldKeys(f)

(***************************************************************************)
(* C20 (as claimed): whenever AlreadyAllocated(endpoint, spec) returns     *)
(* true for an endpoint that carries the spec and the ports of an earlier  *)
(* committed Allocate, Allocate(endpoint, spec) succeeds and returns a     *)
(* proposal for which IsNoop() is true.                                    *)
(***************************************************************************)
C20_AlreadyAllocatedIsNoop ==
    \A c \in AllocateCalls :
        (/\ CarriesResult(c.ep)
         /\ AlreadyAllocated(EndpointPtr(endpoints[c.ep]), c.spec) = Returns(TRUE))
            => c.err = NoError /\ IsNoop(c.prop)

====
